---- MODULE Spec2Model ----
(***************************************************************************)
(* Model of src/alert/script.js: the earthquake dashboard's refresh        *)
(* orchestrator (init, doFullRefresh, startAuto/stopAuto, the two          *)
(* setInterval timers, the user controls) and the three fetch/render       *)
(* operations it runs (fetchQuakesAndRender, updateMajorHighlight,         *)
(* updateStatistics) with the shared seenQuakes set.                       *)
(*                                                                         *)
(* JavaScript runs one job at a time: an async function runs without       *)
(* interruption from one await to the next.  Every action below is one     *)
(* such job: a DOM event handler, a timer callback, or the continuation of *)
(* an operation once its response is there.  `await fetch(url)` followed   *)
(* by `await res.json()` is folded into one continuation, because nothing  *)
(* the program owns is read or written between the two awaits.             *)
(*                                                                         *)
(* Units: instants are whole hours UTC since the epoch, magnitudes are     *)
(* tenths, the refresh-interval input is tenths of a second, autoInterval  *)
(* is milliseconds.  Left out: the toast DOM nodes and their removal       *)
(* timeout, the temporary dashed marker of the highlight and the chart     *)
(* object, which the program writes and never reads.                       *)
(***************************************************************************)
EXTENDS Integers, Sequences, FiniteSets, Bags, TLC

VARIABLES
    env,                 \* the world outside the page, fixed for a session
    seenQuakes,          \* script.js:51
    autoInterval,        \* script.js:56
    autoTimerId,         \* script.js:57 (0 is null)
    countdownTimerId,    \* script.js:58 (0 is null)
    countdownRemaining,  \* script.js:59
    autoEnabled,         \* script.js:60
    refreshSecondsValue, \* refreshSecondsInput.value
    countdownText,       \* countdownEl.textContent
    liveTimers,          \* the browser's table of active setInterval timers
    cycles,              \* the refresh cycles in flight (a bag of runs)
    initState,           \* position of init(): "running" or "done"
    listView,            \* quakeListEl, lastUpdatedEl and quakeLayer
    mhView,              \* mhContent and mhUpdated
    statsView,           \* the three stat labels and the chart's buckets
    timeRange,           \* timeRangeSel.value, in days
    toasts,              \* number of showToast calls per kind and event id
    hist                 \* history: who called startAuto last, what started the
                         \* last cycle, whether a doFullRefresh promise rejected,
                         \* whether the last cycle started while one was in flight

schedVars == <<autoInterval, autoTimerId, countdownTimerId, countdownRemaining,
               refreshSecondsValue, countdownText, liveTimers>>
viewVars == <<listView, mhView, statsView>>
vars == <<env, seenQuakes, autoInterval, autoTimerId, countdownTimerId,
          countdownRemaining, autoEnabled, refreshSecondsValue, countdownText,
          liveTimers, cycles, initState, listView, mhView, statsView, timeRange,
          toasts, hist>>

-----------------------------------------------------------------------------
(* Bounds of the model *)

MaxCycles == 2          \* refresh cycles that may be in flight at once
MaxInputHalves == 12    \* largest refresh interval the user types, in half seconds

(* Program constants *)

MinIntervalMs == 5000   \* Math.max(5000, ...)
MinSecs == 5            \* secs >= 5
DefaultSecs == 30       \* : 30, value = 30, ?? 30
MajorMag == 50          \* largest24.mag >= 5.0
OneHour == 1            \* 60 * 60 * 1000 ms
OneDay == 24            \* 24 * 60 * 60 * 1000 ms
BucketDays == 7         \* for (let i = 6; i >= 0; i--)
NoMag == -1             \* properties.mag null or undefined
NoTimer == 0            \* null timer handle

Max(a, b) == IF a >= b THEN a ELSE b

-----------------------------------------------------------------------------
(* Numbers and the refresh-interval input *)

\* The value of the input is a record: what Number(value) yields, NaN or a
\* finite number in tenths.
NaNValue == [nan |-> TRUE, tenths |-> 0]
Num(t) == [nan |-> FALSE, tenths |-> t]

\* faulty variant: `secs > 5` for `secs >= 5`
IsValidSecsStrict(v) == ~v.nan /\ v.tenths > MinSecs * 10

\* !isNaN(secs) && secs >= 5
IsValidSecs(v) == ~v.nan /\ v.tenths >= MinSecs * 10

\* const validatedSecs = (!isNaN(secs) && secs >= 5) ? secs : 30;
ValidatedSecs(v) == IF IsValidSecs(v) THEN v.tenths ELSE DefaultSecs * 10

\* Math.max(5000, Math.floor(validatedSecs) * 1000)
IntervalOf(v) == Max(MinIntervalMs, (ValidatedSecs(v) \div 10) * 1000)

\* Math.floor(autoInterval / 1000)
FullCountdown(ms) == ms \div 1000

\* let autoInterval = Math.max(5000, Number(value ?? 30) * 1000), for a numeric value
InitialInterval(v) == Max(MinIntervalMs, v.tenths * 100)

-----------------------------------------------------------------------------
(* Dates *)

\* A time zone: offset (hours) before and after one transition instant.
LocalOffset(zone, utc) == IF utc < zone.switch THEN zone.before ELSE zone.after

\* UTC instant of a local wall-clock time; a time in the gap or the overlap
\* of the transition is read with the offset before the transition.
UTCOf(zone, local) ==
    IF local - zone.before < zone.switch THEN local - zone.before
    ELSE IF local - zone.after >= zone.switch THEN local - zone.after
    ELSE local - zone.before

\* d = new Date(); d.setDate(d.getDate() - i): the same local wall-clock
\* time i days earlier.
SetDateBack(zone, utc, i) == UTCOf(zone, utc + LocalOffset(zone, utc) - i * OneDay)

\* d.toISOString().slice(0, 10): the UTC calendar day, as a day number
ISODay(utc) == utc \div OneDay

\* the local calendar day of an instant
LocalDay(zone, utc) == (utc + LocalOffset(zone, utc)) \div OneDay

-----------------------------------------------------------------------------
(* The remote feed *)

\* What the feed holds for a query: the catalogue (a sequence, newest first)
\* filtered by start time and minimum magnitude, as the query parameters ask.
Matching(catalogue, start, minmag) ==
    SelectSeq(catalogue, LAMBDA q:
        /\ q.time >= start
        /\ (minmag = NoMag \/ q.mag >= minmag))

IdsOf(features) == {features[i].id : i \in 1..Len(features)}

\* A response carries the matching events; where the feed's content changes
\* between requests (events are published and withdrawn) it carries any
\* sub-sequence of them, in the feed's order.
Batches(matching) ==
    IF env.stable THEN {matching}
    ELSE {SelectSeq(matching, LAMBDA q: q.id \in S) : S \in SUBSET IdsOf(matching)}

\* A response: the request is rejected, or it comes back with a status
\* (res.ok or not) and a body that res.json() parses or not.
Rejected == [net |-> "rejected", json |-> FALSE, features |-> <<>>]
\* the ways a request fails: fetch rejects, the status is not a success, the
\* body does not parse
AllFaults == {"rejected", "status", "body"}
\* The statuses a session's network answers with
Statuses == IF "status" \in env.faults THEN {"ok", "notok"} ELSE {"ok"}
\* On a reliable network (no faults) every request comes back ok with a body
\* that parses.
Responses(matching) ==
    {[net |-> n, json |-> TRUE, features |-> b] :
        n \in Statuses, b \in Batches(matching)}
    \cup (IF "rejected" \in env.faults THEN {Rejected} ELSE {})
    \cup (IF "body" \in env.faults
          THEN {[net |-> n, json |-> FALSE, features |-> <<>>] : n \in Statuses}
          ELSE {})

\* startTimeISO of the three queries
ListStart(days) == env.now - days * OneDay
Start7 == env.now - 7 * OneDay
Start30 == env.now - 30 * OneDay

Ids == IdsOf(env.catalogue)

-----------------------------------------------------------------------------
(* fetchQuakesAndRender *)

\* const time = props.time || Date.now();
TimeOrNow(q) == IF q.time = 0 THEN env.now ELSE q.time

\* if ((Date.now() - time) < 60 * 60 * 1000)
IsRecent(q) == env.now - TimeOrNow(q) < OneHour

\* the "toast for new" part of the forEach: features i..Len, in order
RECURSIVE NotifyNew(_, _, _, _)
NotifyNew(features, i, seen, shown) ==
    IF i > Len(features) THEN [seen |-> seen, shown |-> shown]
    ELSE LET q == features[i] IN
         IF q.id \notin seen
         THEN NotifyNew(features, i + 1, seen \cup {q.id},
                        IF IsRecent(q)
                        THEN [shown EXCEPT ![q.id] = @ + 1]
                        ELSE shown)
         ELSE NotifyNew(features, i + 1, seen, shown)

\* one list card per feature
ListEntries(features) == [i \in 1..Len(features) |-> features[i].id]

\* one circle marker per feature with coordinates
ListMarkers(features) ==
    LET withCoords == SelectSeq(features, LAMBDA q: q.coords)
    IN [i \in 1..Len(withCoords) |-> withCoords[i].id]

\* the try block threw: fetch rejected, !res.ok, or res.json() rejected
ThrowsChecked(r) == r.net # "ok" \/ ~r.json

-----------------------------------------------------------------------------
(* updateMajorHighlight *)

\* the 7-day request: fetch rejected, !res.ok, or res.json() rejected
Throws7(r) == r.net # "ok" \/ ~r.json

\* the 30-day request: `res = await fetch(url30); data = await res.json();`
\* throws when fetch rejects or the body does not parse; res.ok is not read
Throws30(r) == r.net = "rejected" \/ ~r.json

\* const top = data.features[0]; ... seenQuakes.add(id);
HighlightSeen(features, seen) == seen \cup {features[1].id}

-----------------------------------------------------------------------------
(* updateStatistics *)

ThrowsStats(r) == r.net # "ok" \/ ~r.json

\* features.filter(f => f.properties.time && f.properties.time >= past24Cutoff)
Features24(features) ==
    SelectSeq(features, LAMBDA q: q.time # 0 /\ q.time >= env.now - OneDay)

\* the linear scan for largest24: index of the winner in f24, 0 for none
RECURSIVE LargestIdx(_, _, _)
LargestIdx(f24, i, best) ==
    IF i > Len(f24) THEN best
    ELSE IF f24[i].mag = NoMag THEN LargestIdx(f24, i + 1, best)
    ELSE IF best = 0 \/ f24[i].mag > f24[best].mag THEN LargestIdx(f24, i + 1, i)
    ELSE LargestIdx(f24, i + 1, best)

\* faulty variant: the major notification without the seenQuakes check
NotifiesMajorUnchecked(f24, best, seen) ==
    /\ best # 0
    /\ f24[best].mag >= MajorMag

\* largest24 && largest24.mag >= 5.0 && !seenQuakes.has(largest24.id)
NotifiesMajor(f24, best, seen) ==
    /\ best # 0
    /\ f24[best].mag >= MajorMag
    /\ f24[best].id \notin seen

\* the keys of `buckets`: for i = 6..0, the ISO day of (today - i days)
BucketKeys(zone, now) ==
    {ISODay(SetDateBack(zone, now, i)) : i \in 0..(BucketDays - 1)}

\* if (!t) return; key = new Date(t).toISOString().slice(0, 10);
\* if (key in buckets) buckets[key] += 1;
Buckets(zone, now, features) ==
    [k \in BucketKeys(zone, now) |->
        Cardinality({i \in 1..Len(features) :
                        features[i].time # 0 /\ ISODay(features[i].time) = k})]

-----------------------------------------------------------------------------
(* Timers *)

CycleTimer(id) == [id |-> id, kind |-> "cycle"]
CountdownTimer(id) == [id |-> id, kind |-> "countdown"]

\* setInterval returns a positive handle it never returned before: here the
\* least one that no timer of `known` has
NewTimerId(known) ==
    CHOOSE n \in 1..(Cardinality(known) + 1) : \A t \in known : t.id # n

\* clearInterval(id)
ClearInterval(live, id) == {t \in live : t.id # id}

\* faulty variant: stopAuto that forgets the countdown ticker
stopAutoLeak(live, autoId, countdownId) ==
    IF autoId # NoTimer THEN ClearInterval(live, autoId) ELSE live

\* stopAuto: the timer table once both handles are cleared
stopAuto(live, autoId, countdownId) ==
    LET a == IF autoId # NoTimer THEN ClearInterval(live, autoId) ELSE live
    IN IF countdownId # NoTimer THEN ClearInterval(a, countdownId) ELSE a

Paused == [kind |-> "paused", n |-> 0]
Shown(n) == [kind |-> "number", n |-> n]

\* startAuto, with autoEnabled and the input's value as they are when it
\* runs; the new handles differ from those of the timers just cleared
startAuto(enabled, value) ==
    LET cleared == stopAuto(liveTimers, autoTimerId, countdownTimerId)
        interval == IntervalOf(value)
        a == NewTimerId(liveTimers)
        c == NewTimerId(liveTimers \cup {CycleTimer(a)})
    IN /\ autoInterval' = interval
       /\ countdownRemaining' = FullCountdown(interval)
       /\ refreshSecondsValue' = value
       /\ IF ~enabled
          THEN /\ countdownText' = Paused
               /\ autoTimerId' = NoTimer
               /\ countdownTimerId' = NoTimer
               /\ liveTimers' = cleared
          ELSE /\ countdownText' = Shown(FullCountdown(interval))
               /\ autoTimerId' = a
               /\ countdownTimerId' = c
               /\ liveTimers' = cleared \cup {CycleTimer(a), CountdownTimer(c)}

-----------------------------------------------------------------------------
(* Refresh cycles *)

Ops == {"list", "major", "stats"}
Fetching == {"fetch", "fetch30"}

\* A run of doFullRefresh (promise "pending" until Promise.all settles) or of
\* the time-range handler's two operations (promise "none").  An operation
\* is "idle" (not part of the run), waiting for a response ("fetch",
\* "fetch30") or "done".  `init` marks the run init() awaits; `days` is the
\* time range its list request asked for.
Run(init, days, promise, major) ==
    [init |-> init, days |-> days, promise |-> promise,
     list |-> "fetch", major |-> major, stats |-> "fetch"]

One(run) == SetToBag({run})

CanStart == BagCardinality(cycles) < env.slots

\* doFullRefresh(): the three operations run up to their first await
doFullRefresh ==
    /\ CanStart
    /\ cycles' = cycles (+) One(Run(FALSE, timeRange, "pending", "fetch"))
    /\ listView' = [listView EXCEPT !.state = "loading", !.entries = <<>>,
                                    !.http = "none"]
    /\ mhView' = [state |-> "checking", top |-> "", http |-> "none"]
    /\ UNCHANGED statsView

\* faulty variant: fetchQuakesAndRender without its catch block
ListOutcomeUncaught(threw) == IF threw THEN "thrown" ELSE "returned"

\* the try/catch of each operation: what a throw inside try turns into
ListOutcome(threw) == IF threw THEN "caught" ELSE "returned"
MajorOutcome(threw) == IF threw THEN "caught" ELSE "returned"
StatsOutcome(threw) == IF threw THEN "caught" ELSE "returned"

\* Promise.all over the three operations, when one of them ends with
\* `outcome` and leaves the run as `after`: rejected with the first
\* rejection, fulfilled once all three are fulfilled
PromiseAll(run, after, outcome) ==
    IF run.promise # "pending" THEN run.promise
    ELSE IF outcome = "thrown" THEN "rejected"
    ELSE IF \A o \in Ops : after[o] \notin Fetching THEN "fulfilled"
    ELSE "pending"

\* faulty variant: init() without `await`: it goes on as soon as any operation of
\* its cycle ends
InitResumesEarly(run, promise) ==
    /\ run.init
    /\ run.promise = "pending"

\* init(): `await doFullRefresh()` in try/catch resumes when the promise of
\* the first cycle settles, either way
InitResumes(run, promise) ==
    /\ run.init
    /\ run.promise = "pending"
    /\ promise # "pending"

\* What follows the end of operation op of a run: the cycle's promise, the
\* bag of runs, and init's continuation `startAuto()` when this settles its
\* await.
AfterOp(run, op, outcome) ==
    LET after == [run EXCEPT ![op] = "done"]
        promise == PromiseAll(run, after, outcome)
        running == \E o \in Ops : after[o] \in Fetching
        rejected == hist.rejected \/ (run.promise = "pending" /\ promise = "rejected")
    IN /\ cycles' = IF running
                    THEN (cycles (-) One(run)) (+) One([after EXCEPT !.promise = promise])
                    ELSE cycles (-) One(run)
       /\ IF InitResumes(run, promise)
          THEN /\ initState' = "done"
               /\ startAuto(autoEnabled, refreshSecondsValue)
               /\ hist' = [hist EXCEPT !.armedBy = "init", !.rejected = rejected]
          ELSE /\ UNCHANGED <<initState, schedVars>>
               /\ hist' = [hist EXCEPT !.rejected = rejected]
       /\ UNCHANGED <<env, autoEnabled, timeRange>>

-----------------------------------------------------------------------------
(* The operations' continuations *)

\* fetchQuakesAndRender from `await fetch(url)` to its end, on response r
ListResume(run, r) ==
    /\ BagIn(run, cycles)
    /\ run.list = "fetch"
    /\ r \in Responses(Matching(env.catalogue, ListStart(run.days), NoMag))
    /\ IF ThrowsChecked(r)
       THEN /\ listView' = [listView EXCEPT !.state = "error", !.entries = <<>>,
                                            !.http = r.net]
            /\ UNCHANGED <<seenQuakes, toasts>>
       ELSE IF r.features = <<>>
       THEN /\ listView' = [state |-> "empty", entries |-> <<>>,
                            markers |-> <<>>, http |-> r.net]
            /\ UNCHANGED <<seenQuakes, toasts>>
       ELSE LET n == NotifyNew(r.features, 1, seenQuakes, toasts.new)
            IN /\ listView' = [state |-> "ok", entries |-> ListEntries(r.features),
                               markers |-> ListMarkers(r.features), http |-> r.net]
               /\ seenQuakes' = n.seen
               /\ toasts' = [toasts EXCEPT !.new = n.shown]
    /\ AfterOp(run, "list", ListOutcome(ThrowsChecked(r)))
    /\ UNCHANGED <<mhView, statsView>>

\* the highlight panel once `data` is there (from the 7-day or the 30-day
\* request): the empty state, or the first feature, whose id joins seenQuakes
MajorRender(run, r) ==
    /\ IF r.features = <<>>
       THEN /\ mhView' = [state |-> "empty", top |-> "", http |-> r.net]
            /\ UNCHANGED seenQuakes
       ELSE /\ mhView' = [state |-> "shown", top |-> r.features[1].id,
                          http |-> r.net]
            /\ seenQuakes' = HighlightSeen(r.features, seenQuakes)
    /\ AfterOp(run, "major", MajorOutcome(FALSE))

\* the catch block of updateMajorHighlight
MajorFail(run, r) ==
    /\ mhView' = [state |-> "error", top |-> "", http |-> r.net]
    /\ UNCHANGED seenQuakes
    /\ AfterOp(run, "major", MajorOutcome(TRUE))

\* updateMajorHighlight from `await fetch(url7)`, on response r
MajorResume7(run, r) ==
    /\ BagIn(run, cycles)
    /\ run.major = "fetch"
    /\ r \in Responses(Matching(env.catalogue, Start7, MajorMag))
    /\ IF Throws7(r) THEN MajorFail(run, r)
       ELSE IF r.features = <<>>
       THEN /\ cycles' = (cycles (-) One(run)) (+) One([run EXCEPT !.major = "fetch30"])
            /\ UNCHANGED <<env, seenQuakes, mhView, initState, schedVars,
                           autoEnabled, timeRange, hist>>
       ELSE MajorRender(run, r)
    /\ UNCHANGED <<listView, statsView, toasts>>

\* updateMajorHighlight from `await fetch(url30)`, on response r
MajorResume30(run, r) ==
    /\ BagIn(run, cycles)
    /\ run.major = "fetch30"
    /\ r \in Responses(Matching(env.catalogue, Start30, MajorMag))
    /\ IF Throws30(r) THEN MajorFail(run, r) ELSE MajorRender(run, r)
    /\ UNCHANGED <<listView, statsView, toasts>>

\* updateStatistics from `await fetch(url)` to its end, on response r
StatsResume(run, r) ==
    /\ BagIn(run, cycles)
    /\ run.stats = "fetch"
    /\ r \in Responses(Matching(env.catalogue, Start7, NoMag))
    /\ IF ThrowsStats(r)
       THEN /\ statsView' = [statsView EXCEPT !.state = "error", !.http = r.net]
            /\ UNCHANGED <<seenQuakes, toasts>>
       ELSE LET f24 == Features24(r.features)
                best == LargestIdx(f24, 1, 0)
                major == NotifiesMajor(f24, best, seenQuakes)
            IN /\ statsView' = [state |-> "ok", http |-> r.net,
                                daily |-> Len(f24), weekly |-> Len(r.features),
                                largest |-> IF best = 0 THEN NoMag ELSE f24[best].mag,
                                buckets |-> Buckets(env.zone, env.now, r.features)]
               /\ seenQuakes' = IF major THEN seenQuakes \cup {f24[best].id}
                                ELSE seenQuakes
               /\ toasts' = IF major
                            THEN [toasts EXCEPT !.major[f24[best].id] = @ + 1]
                            ELSE toasts
    /\ AfterOp(run, "stats", StatsOutcome(ThrowsStats(r)))
    /\ UNCHANGED <<listView, mhView>>

-----------------------------------------------------------------------------
(* Timer callbacks *)

\* the cycle timer's callback
CycleTick(t) ==
    /\ t \in liveTimers
    /\ t.kind = "cycle"
    /\ doFullRefresh
    /\ countdownRemaining' = FullCountdown(autoInterval)
    /\ hist' = [hist EXCEPT !.lastStart = "timer", !.overlap = cycles # EmptyBag]
    /\ UNCHANGED <<env, seenQuakes, autoInterval, autoTimerId, countdownTimerId,
                   autoEnabled, refreshSecondsValue, countdownText, liveTimers,
                   initState, timeRange, toasts>>

\* faulty variant: the wrap one tick late: `< 0` for `<= 0`
NextCountdownLate(remaining, interval) ==
    IF remaining - 1 < 0 THEN FullCountdown(interval) ELSE remaining - 1

\* countdownRemaining after `-= 1` and the wrap
NextCountdown(remaining, interval) ==
    IF remaining - 1 <= 0 THEN FullCountdown(interval) ELSE remaining - 1

\* the countdown ticker's callback
CountdownTick(t) ==
    /\ t \in liveTimers
    /\ t.kind = "countdown"
    /\ countdownRemaining' = NextCountdown(countdownRemaining, autoInterval)
    /\ countdownText' = Shown(countdownRemaining')
    /\ UNCHANGED <<env, seenQuakes, autoInterval, autoTimerId, countdownTimerId,
                   autoEnabled, refreshSecondsValue, liveTimers, cycles,
                   initState, viewVars, timeRange, toasts, hist>>

-----------------------------------------------------------------------------
(* User controls *)

\* refreshBtn click
ClickRefresh ==
    /\ doFullRefresh
    /\ hist' = [hist EXCEPT !.lastStart = "manual", !.overlap = cycles # EmptyBag]
    /\ UNCHANGED <<env, seenQuakes, schedVars, autoEnabled, initState,
                   timeRange, toasts>>

\* timeRangeSel change to `days`: the list and the statistics, not the highlight
ChangeRange(days) ==
    /\ days \in env.ranges
    /\ days # timeRange
    /\ CanStart
    /\ timeRange' = days
    /\ cycles' = cycles (+) One(Run(FALSE, days, "none", "idle"))
    /\ listView' = [listView EXCEPT !.state = "loading", !.entries = <<>>,
                                    !.http = "none"]
    /\ hist' = [hist EXCEPT !.lastStart = "range", !.overlap = cycles # EmptyBag]
    /\ UNCHANGED <<env, seenQuakes, schedVars, autoEnabled, initState,
                   mhView, statsView, toasts>>

\* faulty variant: the toggle flips the flag and leaves the timers alone
ToggleAutoNoRestart ==
    /\ autoEnabled' = ~autoEnabled
    /\ hist' = [hist EXCEPT !.armedBy = "user"]
    /\ UNCHANGED <<env, seenQuakes, schedVars, cycles, initState, viewVars,
                   timeRange, toasts>>

\* toggleAutoBtn click
ToggleAuto ==
    /\ autoEnabled' = ~autoEnabled
    /\ startAuto(~autoEnabled, refreshSecondsValue)
    /\ hist' = [hist EXCEPT !.armedBy = "user"]
    /\ UNCHANGED <<env, seenQuakes, cycles, initState, viewVars, timeRange, toasts>>

\* the change handler's correction of the input: value = 30 when invalid
Corrected(v) == IF v.nan \/ v.tenths < MinSecs * 10 THEN Num(DefaultSecs * 10) ELSE v

\* refreshSecondsInput change: the user committed value v
ChangeSeconds(v) ==
    /\ v \in env.inputs
    /\ startAuto(autoEnabled, Corrected(v))
    /\ hist' = [hist EXCEPT !.armedBy = "user"]
    /\ UNCHANGED <<env, seenQuakes, autoEnabled, cycles, initState, viewVars,
                   timeRange, toasts>>

\* the user edits the input without committing: no change event yet
EditSeconds(v) ==
    /\ v \in env.inputs
    /\ v # refreshSecondsValue
    /\ refreshSecondsValue' = v
    /\ UNCHANGED <<env, seenQuakes, autoInterval, autoTimerId, countdownTimerId,
                   countdownRemaining, autoEnabled, countdownText, liveTimers,
                   cycles, initState, viewVars, timeRange, toasts, hist>>

-----------------------------------------------------------------------------
(* Sessions: the world a page load runs in *)

Quake(id, mag, time, coords) ==
    [id |-> id, mag |-> mag, time |-> time, coords |-> coords]

Manila == [before |-> 8, after |-> 8, switch |-> 0]
Noon == 100 * OneDay + 12

\* the feed of the specification's example: M6.2, M4.9 and M3.1, all within
\* the last hour (the last one without coordinates)
ExampleCatalogue(now) ==
    <<Quake("a", 62, now, TRUE), Quake("b", 49, now, TRUE), Quake("c", 31, now, FALSE)>>

\* a feed whose only major event is ten days old
OldQuakeCatalogue(now) == <<Quake("a", 55, now - 10 * OneDay, TRUE)>>

\* events of today, of yesterday, of six days ago and of exactly 7 days ago
WeekCatalogue(now) ==
    <<Quake("a", 41, now, TRUE), Quake("b", 52, now - 30, TRUE),
      Quake("c", 33, now - 6 * OneDay, TRUE), Quake("d", 30, now - 7 * OneDay, TRUE)>>

\* New York around the start of daylight saving time: UTC-5 until 07:00 UTC
\* of day 100, UTC-4 from then on
NewYorkSpring == [before |-> -5, after |-> -4, switch |-> 100 * OneDay + 7]
\* a zone at UTC-5 all year
Bogota == [before |-> -5, after |-> -5, switch |-> 0]

\* what the user may type into the interval input: nothing numeric, 0 (the
\* empty string), and 4.5 s to MaxInputHalves / 2 s in half seconds
TypedValues == {NaNValue, Num(0)} \cup {Num(5 * h) : h \in 9..MaxInputHalves}

Session(catalogue, stable, reliable, initial, inputs, ranges, slots) ==
    [now |-> Noon, zone |-> Manila, catalogue |-> catalogue, stable |-> stable,
     reliable |-> reliable, faults |-> IF reliable THEN {} ELSE AllFaults,
     initial |-> initial, inputs |-> inputs, ranges |-> ranges, slots |-> slots]

\* the example feed, unchanged during the session, on a reliable network,
\* with cycles that overlap
ExampleSession ==
    Session(ExampleCatalogue(Noon), TRUE, TRUE, Num(50), {Num(50)}, {7}, MaxCycles)

\* two events that are published and withdrawn while the page is open
GrowingSession ==
    Session(SubSeq(ExampleCatalogue(Noon), 1, 2), FALSE, TRUE, Num(50),
            {Num(50)}, {7}, 1)

\* a quiet feed and a user who uses every control
QuietSession ==
    Session(<<>>, TRUE, TRUE, Num(50), {Num(50), Num(55)}, {1, 7}, 1)

\* a quiet feed, overlapping cycles
OverlapSession ==
    Session(<<>>, TRUE, TRUE, Num(50), {Num(50)}, {7}, MaxCycles)

\* a quiet feed and a user who types anything into the interval input
TypingSession ==
    Session(<<>>, TRUE, TRUE, Num(50), TypedValues, {7}, 1)

\* one old major event in the feed, on a network where requests fail
FailingSession ==
    Session(OldQuakeCatalogue(Noon), TRUE, FALSE, Num(50), {Num(50)}, {7}, 1)

\* one major event of two days ago on a network where requests are rejected
\* now and then, with cycles that overlap
BrokenOverlapSession ==
    [Session(<<Quake("a", 55, Noon - 2 * OneDay, TRUE)>>, TRUE, FALSE, Num(50), {},
             {7}, MaxCycles)
        EXCEPT !.faults = {"rejected"}]

\* a week of events, loaded at hour h of day 100 (UTC) in a given zone
WeekSession(h, zone) ==
    [Session(WeekCatalogue(100 * OneDay + h), TRUE, TRUE, Num(50), {Num(50)}, {7}, 1)
        EXCEPT !.now = 100 * OneDay + h, !.zone = zone]

-----------------------------------------------------------------------------
(* The page after the script's top level ran: init() is awaiting its cycle *)

InitIn(e) ==
    /\ env = e
    /\ seenQuakes = {}
    /\ autoEnabled = TRUE
    /\ refreshSecondsValue = e.initial
    /\ autoInterval = InitialInterval(refreshSecondsValue)
    /\ countdownRemaining = FullCountdown(autoInterval)
    /\ autoTimerId = NoTimer
    /\ countdownTimerId = NoTimer
    /\ liveTimers = {}
    /\ countdownText = [kind |-> "initial", n |-> 0]
    /\ timeRange = 7
    /\ cycles = One(Run(TRUE, 7, "pending", "fetch"))
    /\ initState = "running"
    /\ listView = [state |-> "loading", entries |-> <<>>, markers |-> <<>>,
                   http |-> "none"]
    /\ mhView = [state |-> "checking", top |-> "", http |-> "none"]
    /\ statsView = [state |-> "initial", http |-> "none", daily |-> 0,
                    weekly |-> 0, largest |-> NoMag, buckets |-> [k \in {} |-> 0]]
    /\ toasts = [new |-> [i \in IdsOf(e.catalogue) |-> 0],
                 major |-> [i \in IdsOf(e.catalogue) |-> 0]]
    /\ hist = [armedBy |-> "none", lastStart |-> "init", rejected |-> FALSE,
            overlap |-> FALSE]

Init == \E e \in {ExampleSession, GrowingSession, QuietSession} : InitIn(e)

ListResponse ==
    \E run \in BagToSet(cycles) :
        \E r \in Responses(Matching(env.catalogue, ListStart(run.days), NoMag)) :
            ListResume(run, r)

Major7Response ==
    \E run \in BagToSet(cycles) :
        \E r \in Responses(Matching(env.catalogue, Start7, MajorMag)) :
            MajorResume7(run, r)

Major30Response ==
    \E run \in BagToSet(cycles) :
        \E r \in Responses(Matching(env.catalogue, Start30, MajorMag)) :
            MajorResume30(run, r)

StatsResponse ==
    \E run \in BagToSet(cycles) :
        \E r \in Responses(Matching(env.catalogue, Start7, NoMag)) :
            StatsResume(run, r)

CycleTimerFires == \E t \in liveTimers : CycleTick(t)

CountdownTimerFires == \E t \in liveTimers : CountdownTick(t)

RangeChanged == \E d \in env.ranges : ChangeRange(d)

SecondsChanged == \E v \in env.inputs : ChangeSeconds(v)

SecondsEdited == \E v \in env.inputs : EditSeconds(v)

Next ==
    \/ ListResponse
    \/ Major7Response
    \/ Major30Response
    \/ StatsResponse
    \/ CycleTimerFires
    \/ CountdownTimerFires
    \/ ClickRefresh
    \/ RangeChanged
    \/ ToggleAuto
    \/ SecondsChanged
    \/ SecondsEdited

Spec == Init /\ [][Next]_vars

\* the scheduler under every input
InitAuto == \E e \in {TypingSession, OverlapSession, QuietSession} : InitIn(e)
SpecAuto == InitAuto /\ [][Next]_vars

\* the operations under failures
InitFail == \E e \in {FailingSession, QuietSession} : InitIn(e)
SpecFail == InitFail /\ [][Next]_vars

\* the statistics at every hour of a day, in three time zones
InitStats ==
    \/ \E h \in 0..(OneDay - 1) : \E zone \in {Manila, Bogota, NewYorkSpring} :
           InitIn(WeekSession(h, zone))
    \/ InitIn(QuietSession)
SpecStats == InitStats /\ [][Next]_vars

\* overlapping cycles under failures
InitOverlap == \E e \in {BrokenOverlapSession, QuietSession} : InitIn(e)
SpecOverlap == InitOverlap /\ [][Next]_vars

\* Timer callbacks run when due and requests settle: a live cycle timer
\* fires (it is not starved by other jobs), and every response arrives.
InitFair == InitIn(QuietSession)
FairSpec ==
    /\ InitFair
    /\ [][Next]_vars
    /\ SF_vars(CycleTimerFires)
    /\ WF_vars(ListResponse)
    /\ WF_vars(Major7Response)
    /\ WF_vars(Major30Response)
    /\ WF_vars(StatsResponse)

-----------------------------------------------------------------------------
(* Notifications *)

Shown1(id) == toasts.new[id] + toasts.major[id]

\* the first cycle has settled and no other cycle was started since
OnlyFirstCycleRan == initState = "done" /\ hist.lastStart = "init"

\* C1: after the first full cycle (started with an empty seenQuakes) whose
\* list response held events with distinct ids, all within the last hour,
\* every returned event has fired exactly one notification, in whatever
\* order the three operations resumed.
C1_OneNotificationPerEvent ==
    (/\ OnlyFirstCycleRan
     /\ listView.state = "ok"
     /\ \A i \in 1..Len(env.catalogue) : IsRecent(env.catalogue[i]))
    => \A i \in 1..Len(listView.entries) : Shown1(listView.entries[i]) = 1

\* C2: no notification of either kind fires for an id that is in seenQuakes;
\* an id fires at most one notification in the page's lifetime; seenQuakes
\* never loses a member.
C2_NotifiedOnceWhenNew ==
    /\ [](\A id \in Ids : Shown1(id) <= 1)
    /\ [][/\ seenQuakes \subseteq seenQuakes'
          /\ \A id \in Ids :
                toasts'.new[id] + toasts'.major[id] # Shown1(id)
                => /\ id \notin seenQuakes
                   /\ id \in seenQuakes'
                   /\ toasts'.new[id] + toasts'.major[id] = Shown1(id) + 1]_vars

\* a timer-driven cycle has rendered again an event notified before
C2_Witness ==
    /\ hist.lastStart = "timer"
    /\ cycles = EmptyBag
    /\ listView.state = "ok"
    /\ statsView.state = "ok"
    /\ \E i \in 1..Len(listView.entries) :
           /\ Shown1(listView.entries[i]) = 1
           /\ toasts.major[listView.entries[i]] = 1

-----------------------------------------------------------------------------
(* The scheduler *)

Armed == autoTimerId # NoTimer /\ countdownTimerId # NoTimer

\* C3: while the timers are armed the countdown display is a number from 1
\* to floor(autoInterval / 1000), never 0 or less.
C3_CountdownInRange ==
    Armed => /\ countdownText.kind = "number"
             /\ countdownText.n >= 1
             /\ countdownText.n <= autoInterval \div 1000

\* the display counted the default interval down to its last second
C3_Witness ==
    /\ Armed
    /\ autoInterval = 30000
    /\ countdownText = Shown(1)
    /\ countdownRemaining = 1

\* the interval the specification gives for an input, in ms
EffectiveMs(v) ==
    IF v.nan \/ v.tenths < 50 THEN 30000 ELSE (v.tenths \div 10) * 1000

AfterStartAuto(v) ==
    /\ autoInterval' = EffectiveMs(v)
    /\ autoInterval' >= 5000
    /\ countdownRemaining' = autoInterval' \div 1000
    /\ autoEnabled' => /\ autoTimerId' # NoTimer
                       /\ countdownTimerId' # NoTimer
                       /\ autoTimerId' # autoTimerId
                       /\ CycleTimer(autoTimerId') \in liveTimers'
                       /\ CountdownTimer(countdownTimerId') \in liveTimers'
                       /\ countdownText' = Shown(autoInterval' \div 1000)

\* C4: every call of startAuto (by the change handler with the value typed,
\* by the toggle and by init with the value the input holds) makes the
\* interval 30 s when the value is not numeric or below 5 and the value
\* rounded down to whole seconds otherwise, never less than 5 s, and arms the
\* timers when auto-refresh is enabled.
C4_IntervalValidated ==
    [][/\ \A v \in env.inputs : ChangeSeconds(v) => AfterStartAuto(v)
       /\ ToggleAuto => AfterStartAuto(refreshSecondsValue)
       /\ (initState = "running" /\ initState' = "done")
              => AfterStartAuto(refreshSecondsValue)]_vars

\* startAuto read a value that is not a number and armed the timers on the
\* default interval
C4_Witness ==
    /\ Armed
    /\ refreshSecondsValue = NaNValue
    /\ autoInterval = 30000
    /\ countdownText = Shown(30)

CycleStarts == BagCardinality(cycles') > BagCardinality(cycles)

\* C5: while auto-refresh is disabled no timer is live, the display shows
\* the paused indicator and does not change, and only the refresh button or
\* a time-range change starts a cycle.
C5_PausedStaysPaused ==
    /\ [](~autoEnabled => /\ liveTimers = {}
                          /\ autoTimerId = NoTimer
                          /\ countdownTimerId = NoTimer
                          /\ countdownText = Paused)
    /\ [][~autoEnabled =>
            /\ CycleStarts => hist'.lastStart \in {"manual", "range"}
            /\ ~autoEnabled' => countdownText' = countdownText]_vars

\* paused while the first cycle was in flight, init then ran startAuto, and
\* a manual cycle is in flight
C5_Witness ==
    /\ ~autoEnabled
    /\ initState = "done"
    /\ hist.armedBy = "init"
    /\ hist.lastStart = "manual"
    /\ cycles # EmptyBag

\* C9: once startAuto has run, the live timers are exactly the cycle timer
\* and the countdown ticker the two handles name when auto-refresh is
\* enabled, and none when it is disabled; before that no timer is live.
C9_TimersInPairs ==
    /\ hist.armedBy = "none" => liveTimers = {}
    /\ hist.armedBy # "none" =>
          IF autoEnabled
          THEN /\ Armed
               /\ autoTimerId # countdownTimerId
               /\ liveTimers = {CycleTimer(autoTimerId),
                                CountdownTimer(countdownTimerId)}
          ELSE /\ liveTimers = {}
               /\ autoTimerId = NoTimer
               /\ countdownTimerId = NoTimer

\* the user re-armed the timers: new handles, the old timers gone
C9_Witness ==
    /\ autoEnabled
    /\ hist.armedBy = "user"
    /\ autoTimerId = 3
    /\ Cardinality(liveTimers) = 2

-----------------------------------------------------------------------------
(* Failures *)

\* requests still awaited by the runs of a bag
RECURSIVE PendingOps(_, _)
PendingOps(bag, runs) ==
    IF runs = {} THEN 0
    ELSE LET run == CHOOSE x \in runs : TRUE
         IN CopiesIn(run, bag) * Cardinality({o \in Ops : run[o] \in Fetching})
            + PendingOps(bag, runs \ {run})

Pending(bag) == PendingOps(bag, BagToSet(bag))

\* C6: no cycle's promise ever rejects and init waits for all three
\* operations of its cycle; a step ends at most one operation, so that a
\* failed one leaves the others of its cycle waiting for their responses; an
\* operation that ends in its error state changes no other region, no
\* notification and nothing of seenQuakes; and the end of an operation leaves
\* armed timers armed (the same timers, once init has armed them).
C6_FailureIsolated ==
    /\ [](~hist.rejected)
    /\ []((initState = "running") <=> (\E run \in BagToSet(cycles) : run.init))
    /\ [][/\ Pending(cycles') >= Pending(cycles) - 1
          /\ (listView' # listView /\ listView'.state = "error")
                 => UNCHANGED <<mhView, statsView, seenQuakes, toasts>>
          /\ (mhView' # mhView /\ mhView'.state = "error")
                 => UNCHANGED <<listView, statsView, seenQuakes, toasts>>
          /\ (statsView' # statsView /\ statsView'.state = "error")
                 => UNCHANGED <<listView, mhView, seenQuakes, toasts>>
          /\ (Pending(cycles') < Pending(cycles) /\ Armed)
                 => /\ autoTimerId' # NoTimer
                    /\ CycleTimer(autoTimerId') \in liveTimers'
                    /\ CountdownTimer(countdownTimerId') \in liveTimers'
                    /\ initState = "done"
                          => UNCHANGED <<autoTimerId, countdownTimerId, liveTimers>>
         ]_vars

\* the list request of the first cycle failed; the highlight and the
\* statistics of that cycle rendered, init went on and armed the timers
C6_Witness ==
    /\ OnlyFirstCycleRan
    /\ cycles = EmptyBag
    /\ listView.state = "error"
    /\ mhView.state = "shown"
    /\ statsView.state = "ok"
    /\ ~hist.rejected
    /\ hist.armedBy = "init"
    /\ Armed
    /\ Cardinality(liveTimers) = 2

\* C7: a region whose operation ended on a response with a non-success HTTP
\* status shows its error state, and the empty-result state is shown only for
\* a response with a success status and zero events.
C7_NonSuccessShowsError ==
    /\ listView.http = "notok" => listView.state = "error"
    /\ statsView.http = "notok" => statsView.state = "error"
    /\ mhView.http = "notok" => mhView.state = "error"
    /\ listView.state = "empty" => listView.http = "ok"
    /\ mhView.state = "empty" => mhView.http = "ok"

-----------------------------------------------------------------------------
(* Statistics *)

\* C8: after a successful statistics refresh the bucket map has exactly the
\* 7 consecutive calendar days ending today as its keys (today read as the
\* local date or as the UTC date), and counts each event at most once.
C8_SevenDailyBuckets ==
    statsView.state = "ok" =>
        /\ \E today \in {LocalDay(env.zone, env.now), ISODay(env.now)} :
               DOMAIN statsView.buckets = (today - 6)..today
        /\ \A k \in DOMAIN statsView.buckets : statsView.buckets[k] >= 0

-----------------------------------------------------------------------------
(* Start-up *)

FirstCycle == Run(TRUE, 7, "pending", "fetch")

\* the start-up part of C10: the page starts with exactly one full cycle in
\* flight and auto-refresh enabled or not, no timer armed; init arms the
\* timers only in the step that settles that cycle, and then if and only if
\* auto-refresh is enabled
ArmedAfterFirstCycle ==
    /\ cycles = One(FirstCycle) /\ liveTimers = {}
    /\ [](hist.armedBy = "init" => initState = "done")
    /\ []((initState = "running") =>
             \E run \in BagToSet(cycles) :
                 /\ run.init
                 /\ CopiesIn(run, cycles) = 1
                 /\ \E o \in Ops : run[o] \in Fetching)
    /\ [][(initState = "running" /\ initState' = "done")
             => /\ \A run \in BagToSet(cycles') : ~run.init
                /\ hist'.armedBy = "init"
                /\ Armed' <=> autoEnabled'
                /\ autoEnabled' => /\ CycleTimer(autoTimerId') \in liveTimers'
                                   /\ CountdownTimer(countdownTimerId') \in liveTimers'
                /\ ~autoEnabled' => liveTimers' = {}]_vars

\* init has armed the timers and the user has not touched them since
ArmedByInit == initState = "done" /\ autoEnabled /\ hist.armedBy = "init"

-----------------------------------------------------------------------------
(* Overlapping cycles *)

\* the markers the list's forEach draws for the cards `entries`: one per
\* event with coordinates, in the same order
MarkersOf(entries) ==
    SelectSeq(entries, LAMBDA id :
        \E i \in 1..Len(env.catalogue) :
            env.catalogue[i].id = id /\ env.catalogue[i].coords)

\* cycles overlapped and all of them have settled
OverlapSettled == cycles = EmptyBag /\ hist.overlap

\* C11: once cycles that overlapped have all settled, every region shows the
\* result of one operation: the list is no longer loading and the marker
\* layer holds exactly the markers of the cards the list shows (none when
\* the list shows its empty or its error state), the highlight is no longer
\* checking, and the statistics have rendered.
C11_LastCompletedWins ==
    OverlapSettled =>
        /\ listView.state \in {"ok", "empty", "error"}
        /\ listView.markers = MarkersOf(listView.entries)
        /\ mhView.state \in {"shown", "empty", "error"}
        /\ statsView.state \in {"ok", "error"}

\* the same for the case that the list operation that completed last did
\* not fail
LastSuccessfulListWins ==
    (OverlapSettled /\ listView.state # "error") => C11_LastCompletedWins

====
